---- MODULE Spec2Model ----
(***************************************************************************)
(* Model of decrypt14.py: the oscillating sequencer, the offset discovery  *)
(* (find_data_offset / test_decompression inside the outer loop of         *)
(* decrypt14) and the decode pass of decrypt14 in its two modes.           *)
(*                                                                         *)
(* Abstractions.  AES-GCM decryption and zlib are library code; what the   *)
(* program observes of them is modelled, not their arithmetic:             *)
(*  - the header and the key together determine, for every pair            *)
(*    (iv_offset, data offset), how the two-stage test ends.  That verdict *)
(*    is the class of the pair (Classes below); hdr maps the pairs whose   *)
(*    class is not "nomagic" to their class.                               *)
(*  - the input after the data offset is a sequence of blocks of           *)
(*    DEFAULT_BUFFER_SIZE bytes; a block is "data" (inflates to one unit   *)
(*    of output), "end" (inflates to one unit and holds the end-of-stream  *)
(*    marker) or "bad" (zlib.error).  The output file is the number of     *)
(*    units it holds.                                                      *)
(*  - an OSError is injected at one chosen I/O call (ioFault).             *)
(***************************************************************************)
EXTENDS Integers, Sequences, FiniteSets, TLC

\* ---------------------------------------------------------------- constants
HEADER_SIZE == 512
DEFAULT_DATA_OFFSET == 191
DEFAULT_IV_OFFSET == 67
IV_LENGTH == 16
TAIL_ROOM == 128
None == -9

\* ------------------------------------------------------------------- bounds
MaxN == 5
MaxChunks == 2

VARIABLES
    on, omin, omax, oout, opc,
    force, mem_approach, pre, hdr, stream, ioFault,
    pc, ivIdx, iv_offset, offset, probes, errlog, outcome, pending,
    inOpen, outOpen, output, zeof, nread, nwrite, drained

oscVars == <<on, omin, omax, oout, opc>>
inputVars == <<force, mem_approach, pre, hdr, stream, ioFault>>
runVars == <<pc, ivIdx, iv_offset, offset, probes, errlog, outcome, pending,
             inOpen, outOpen, output, zeof, nread, nwrite, drained>>
vars == <<on, omin, omax, oout, opc,
          force, mem_approach, pre, hdr, stream, ioFault,
          pc, ivIdx, iv_offset, offset, probes, errlog, outcome, pending,
          inOpen, outOpen, output, zeof, nread, nwrite, drained>>

\* ------------------------------------------------------------------ helpers
\* list(range(a, b)) and list(range(a, b, -1)).
RangeUp(a, b) == [k \in 1..(b - a) |-> a + k - 1]

RangeDown(a, b) == [k \in 1..(a - b) |-> a - k + 1]

SeqToSet(s) == {s[k] : k \in 1..Len(s)}

\* ---------------------------------------------------------------- oscillate
\* First phase of oscillate: the while True loop.  At the top of its k-th
\* iteration (k = 0, 1, ...) the locals are i = n + k and c = 2k + 1; after
\* "i = i - c; c = c + 1" they are i = n - k - 1 and c = 2k + 2.  The loop
\* leaves at the first k where "i == n_max" holds at the top or
\* "i == 0 or i == n_min" holds in the middle.  Returns the locals at the
\* break.  (The loop is unfolded by its iteration number because a
\* recursion per iteration is too deep for the 191 iterations of the inner
\* search.)  Every yield is followed by c = c + 1 and c starts at 1, so
\* c - 1 counts the values yielded so far.
BreakTop(n, n_max, k) == n + k = n_max

BreakMid(n, n_min, k) == n - k - 1 = 0 \/ n - k - 1 = n_min

Least(S) == CHOOSE k \in S : \A j \in S : k <= j

LocalsAtBreak(n, n_max, K) ==
    IF BreakTop(n, n_max, K)
    THEN [i |-> n + K, c |-> 2 * K + 1]
    ELSE [i |-> n - K - 1, c |-> 2 * K + 2]

FirstPhase(n, n_min, n_max) ==
    LocalsAtBreak(n, n_max,
        Least({k \in 0..(n + n_max) :
                  BreakTop(n, n_max, k) \/ BreakMid(n, n_min, k)}))

\* The values the first phase yields, in order: the j-th one is the value of
\* i after j - 1 steps of "i = i - c; c = c + 1" / "i = i + c; c = c + 1"
\* from i = n, c = 1, that is n, n-1, n+1, n-2, n+2, ...
FirstYields(n, cnt) ==
    [j \in 1..cnt |-> IF j % 2 = 1 THEN n + (j - 1) \div 2 ELSE n - j \div 2]

\* "n != i / 2" of the second phase (true division: equal iff 2n = i).
NotHalf(n, i) == 2 * n # i

\* Lines 119-124: the sweep up to n_max after the first phase left at
\* n_min, from the locals p and the values out yielded so far.  Returns the
\* local i and the values yielded.
SweepUp(n, n_min, n_max, p, out) ==
    IF p.i = n_min /\ NotHalf(n, p.i)
    THEN [i |-> p.i + p.c,
          out |-> Append(out, p.i) \o RangeUp(p.i + p.c, n_max + 1)]
    ELSE [i |-> p.i, out |-> out]

\* Lines 126-131: the sweep down to n_min; c is the local c, u what
\* SweepUp left.
SweepDown(n, n_min, n_max, c, u) ==
    IF u.i = n_max /\ NotHalf(n, u.i)
    THEN Append(u.out, n_max) \o RangeDown(u.i - c, n_min - 1)
    ELSE u.out

SecondPhase(n, n_min, n_max, p) ==
    SweepDown(n, n_min, n_max, p.c,
              SweepUp(n, n_min, n_max, p, FirstYields(n, p.c - 1)))

\* Lines 96-97.
ClampMin(n_min) == IF n_min < 0 THEN 0 ELSE n_min

\* The sequence of values oscillate(n, n_min, n_max) yields.
oscillate(n, n_min, n_max) ==
    SecondPhase(n, ClampMin(n_min), n_max,
                FirstPhase(n, ClampMin(n_min), n_max))

\* ------------------------------------------------------------------ logging
\* Log.e: prints the message and exits unless force is enabled.
LogEExits(f) == ~f

\* ------------------------------------------------------- validation oracle
\* What the header and the key make of a candidate pair:
\*   nomagic    the two decrypted bytes are not the zlib magic
\*   zerr       magic, and decompress raises zlib.error
\*   small      magic, and fewer than 16 bytes decompress
\*   nonascii   magic, 16 bytes or more, the first 15 are not ASCII
\*   notsqlite  magic, 16 bytes or more of ASCII, not "SQLite format 3"
\*   sqlite     magic, and the decompressed prefix is "SQLite format 3"
Classes == {"nomagic", "zerr", "small", "nonascii", "notsqlite", "sqlite"}

Class(h, iv, i) ==
    IF <<iv, i>> \in DOMAIN h THEN h[<<iv, i>>] ELSE "nomagic"

\* "if test_bytes == zheader" for the single entry of ZIP_HEADERS.
MagicMatches(cls) == cls # "nomagic"

\* test_decompression on the decrypted header tail of a pair of class cls.
\* ret: the value returned; logged: the Log.e messages printed;
\* stop: "none", an exit of Log.e or an exception that is not caught.
test_decompression(cls, f) ==
    CASE cls = "zerr" ->
            [ret |-> FALSE, logged |-> {}, stop |-> "none"]
      [] cls = "small" ->
            [ret |-> FALSE, logged |-> {"ChunkTooSmall"},
             stop |-> IF LogEExits(f) THEN "ChunkTooSmall" ELSE "none"]
      [] cls = "nonascii" ->
            [ret |-> FALSE, logged |-> {}, stop |-> "UnicodeDecodeError"]
      [] cls = "notsqlite" ->
            [ret |-> f, logged |-> {"NotSQLite"},
             stop |-> IF LogEExits(f) THEN "NotSQLite" ELSE "none"]
      [] OTHER ->
            [ret |-> TRUE, logged |-> {}, stop |-> "none"]

\* One pass of the loop body of find_data_offset for a candidate of class
\* cls.
ProbeClass(cls, f) ==
    IF MagicMatches(cls)
    THEN test_decompression(cls, f)
    ELSE [ret |-> FALSE, logged |-> {}, stop |-> "none"]

Probe(h, iv, i, f) == ProbeClass(Class(h, iv, i), f)

\* len(iv) for iv = header[iv_offset:iv_offset + 16].
IvLen(iv) ==
    IF iv + IV_LENGTH <= HEADER_SIZE THEN IV_LENGTH
    ELSE IF iv >= HEADER_SIZE THEN 0 ELSE HEADER_SIZE - iv

\* The candidates of the inner and of the outer loop, in the order yielded.
DataSeq(iv) ==
    oscillate(DEFAULT_DATA_OFFSET, iv + IvLen(iv), HEADER_SIZE - TAIL_ROOM)

IvSeq == oscillate(DEFAULT_IV_OFFSET, 0, HEADER_SIZE - TAIL_ROOM)

\* The loop leaves at the first candidate whose test returns true, exits or
\* raises (the for loop is unfolded by index: it has up to 381 iterations).
LeavesLoop(r) == r.ret \/ r.stop # "none"

Greatest(S) == CHOOSE k \in S : \A j \in S : k >= j

\* Mutant of LeaveIndex: the loop keeps the last candidate that passes
\* instead of returning at the first.
LeaveIndexLast(h, iv, f, seq) ==
    IF \A k \in 1..Len(seq) : ~LeavesLoop(Probe(h, iv, seq[k], f))
    THEN 0
    ELSE Greatest({k \in 1..Len(seq) : LeavesLoop(Probe(h, iv, seq[k], f))})

\* The index in seq of the candidate at which the loop leaves; 0 when the
\* sequence is exhausted.
LeaveIndex(h, iv, f, seq) ==
    IF \A k \in 1..Len(seq) : ~LeavesLoop(Probe(h, iv, seq[k], f))
    THEN 0
    ELSE Least({k \in 1..Len(seq) : LeavesLoop(Probe(h, iv, seq[k], f))})

\* The messages printed for the candidates seq[1..n].
Logged(h, iv, f, seq, n) ==
    UNION {Probe(h, iv, seq[k], f).logged : k \in 1..n}

\* What find_data_offset does when its loop leaves at seq[last] (last > 0)
\* with the result r of that pass, or is exhausted (last = 0).
\* off: the value returned (-1 when not found); stop: an exit or exception
\* inside; probed: the candidates submitted, in order; logged: the messages.
ScanResult(h, iv, f, seq, last, r) ==
    IF last = 0
    THEN [off |-> -1, stop |-> "none", probed |-> seq,
          logged |-> Logged(h, iv, f, seq, Len(seq))]
    ELSE [off |-> IF r.stop = "none" THEN seq[last] ELSE -1,
          stop |-> r.stop,
          probed |-> SubSeq(seq, 1, last),
          logged |-> Logged(h, iv, f, seq, last)]

Scan(h, iv, f, seq, last) ==
    ScanResult(h, iv, f, seq, last,
               IF last = 0 THEN [ret |-> FALSE, logged |-> {}, stop |-> "none"]
               ELSE Probe(h, iv, seq[last], f))

ScanSeq(h, iv, f, seq) == Scan(h, iv, f, seq, LeaveIndex(h, iv, f, seq))

\* find_data_offset(header, iv_offset, key).
find_data_offset(h, iv, f) == ScanSeq(h, iv, f, DataSeq(iv))

\* ------------------------------------------------------------- decode pass
Blocks == {"data", "end", "bad"}

\* z_obj.decompress(block) of a decompressobj whose eof flag is eof: after
\* the end of the stream the input goes to unused_data and nothing is
\* produced; before it a bad block raises zlib.error.
Decompress(eof, block) ==
    IF eof THEN [out |-> 0, eof |-> TRUE, err |-> FALSE]
    ELSE IF block = "bad" THEN [out |-> 0, eof |-> FALSE, err |-> TRUE]
    ELSE [out |-> 1, eof |-> block = "end", err |-> FALSE]

\* The eof flag of the decompressor when block k of st is fed to it.
EofBefore(st, k) == \E j \in 1..(k - 1) : st[j] = "end"

\* z_obj.decompress of the whole remaining input in one call: the blocks
\* go through the decompressor in order; an error discards what was
\* produced before it.
InflateAll(st, res) ==
    IF \E k \in 1..Len(st) : res[k].err
    THEN [out |-> 0, eof |-> FALSE, err |-> TRUE]
    ELSE [out |-> Cardinality({k \in 1..Len(st) : res[k].out = 1}),
          eof |-> \E k \in 1..Len(st) : res[k].eof,
          err |-> FALSE]

Inflate(st) ==
    InflateAll(st, [k \in 1..Len(st) |-> Decompress(EofBefore(st, k), st[k])])

\* Mutant of IsTruncated: the end-of-stream check is left out.
IsTruncatedNever(eof) == FALSE

\* "if not z_obj.eof" after all input was consumed.
IsTruncated(eof) == ~eof

Fails(fault, op, k) == fault.op = op /\ fault.at = k

\* The try block of decrypt14 in whole-buffer mode (mem_approach true).
\* pend: what leaves the try block ("none", an exit or an exception).
WholeSteps(f, fault, d, logged) ==
    IF Fails(fault, "read", 1)
    THEN [pend |-> "IOError", out |-> 0, eof |-> FALSE, drained |-> FALSE,
          logged |-> {}]
    ELSE IF d.err
    THEN [pend |-> "zlib.error", out |-> 0, eof |-> FALSE, drained |-> FALSE,
          logged |-> {}]
    ELSE IF IsTruncated(d.eof) /\ LogEExits(f)
    THEN [pend |-> "Truncated", out |-> 0, eof |-> d.eof, drained |-> TRUE,
          logged |-> logged]
    ELSE IF Fails(fault, "write", 1)
    THEN [pend |-> "IOError", out |-> 0, eof |-> d.eof, drained |-> TRUE,
          logged |-> logged]
    ELSE [pend |-> "none", out |-> d.out, eof |-> d.eof, drained |-> TRUE,
          logged |-> logged]

WholeInflated(f, fault, d) ==
    WholeSteps(f, fault, d, IF IsTruncated(d.eof) THEN {"Truncated"} ELSE {})

WholeBuffer(st, f, fault) == WholeInflated(f, fault, Inflate(st))

\* ------------------------------------------------------ decrypt14: actions
NoFault == [op |-> "none", at |-> 0]

\* The process ends at this step: sys.exit(1) of Log.e / Log.f, or an
\* exception nobody catches.  The handles stay as they are.
Exit(kind) ==
    /\ pc' = "ended"
    /\ outcome' = kind

\* Lines 274-281: read the header; Log.f on OSError and on a short header.
ReadHeader ==
    /\ pc = "start"
    /\ IF Fails(ioFault, "hread", 1) THEN Exit("HeaderReadFailed")
       ELSE IF pre = "short" THEN Exit("TooSmall")
       ELSE pc' = "chk_plain" /\ outcome' = outcome
    /\ UNCHANGED oscVars
    /\ UNCHANGED inputVars
    /\ UNCHANGED <<ivIdx, iv_offset, offset, probes, errlog, pending, inOpen,
                   outOpen, output, zeof, nread, nwrite, drained>>

\* A check that ends in Log.e(kind) when it fails, else goes on at next.
LogECheck(failed, kind, next) ==
    /\ errlog' = IF failed THEN errlog \cup {kind} ELSE errlog
    /\ IF failed /\ LogEExits(force) THEN Exit(kind)
       ELSE pc' = next /\ outcome' = outcome
    /\ UNCHANGED oscVars
    /\ UNCHANGED inputVars
    /\ UNCHANGED <<ivIdx, iv_offset, offset, probes, pending, inOpen,
                   outOpen, output, zeof, nread, nwrite, drained>>

\* Lines 283-288: the input is a plain SQLite database.
CheckPlain ==
    /\ pc = "chk_plain"
    /\ LogECheck(pre = "plain", "NotEncrypted", "chk_t1")

\* Lines 290-295: t1 is not in the header.
CheckT1 ==
    /\ pc = "chk_t1"
    /\ LogECheck(pre = "not1", "T1NotFound", "chk_ver")

\* Lines 298-302: the WhatsApp version is not found exactly once.
CheckVersion ==
    /\ pc = "chk_ver"
    /\ LogECheck(pre = "nover", "VersionNotFound", "discover")

\* Lines 305-310: one iteration of the outer loop for the k-th IV offset
\* iv, r being what find_data_offset did.
TryStep(k, iv, r) ==
    /\ ivIdx' = k
    /\ iv_offset' = iv
    /\ probes' = r.probed
    /\ errlog' = errlog \cup r.logged
    /\ IF r.stop # "none"
       THEN Exit(r.stop) /\ offset' = offset
       ELSE /\ offset' = r.off
            /\ outcome' = outcome
            /\ pc' = IF r.off # -1 \/ k = Len(IvSeq)
                     THEN "after_loop" ELSE "discover"

TryIv(k, iv) == TryStep(k, iv, find_data_offset(hdr, iv, force))

TryIvOffset ==
    /\ pc = "discover"
    /\ ivIdx < Len(IvSeq)
    /\ TryIv(ivIdx + 1, IvSeq[ivIdx + 1])
    /\ UNCHANGED oscVars
    /\ UNCHANGED inputVars
    /\ UNCHANGED <<pending, inOpen, outOpen, output, zeof, nread, nwrite,
                   drained>>

\* Lines 311-312: Log.f when the loop ended without a data offset.
CheckFound ==
    /\ pc = "after_loop"
    /\ IF offset = -1 THEN Exit("OffsetsNotFound")
       ELSE pc' = "setup" /\ outcome' = outcome
    /\ UNCHANGED oscVars
    /\ UNCHANGED inputVars
    /\ UNCHANGED <<ivIdx, iv_offset, offset, probes, errlog, pending, inOpen,
                   outOpen, output, zeof, nread, nwrite, drained>>

\* Lines 315-321: cipher, seek to the data offset (outside the try block:
\* its OSError is not caught), decompressor.
Setup ==
    /\ pc = "setup"
    /\ IF Fails(ioFault, "seek", 1) THEN Exit("OSError")
       ELSE pc' = "decode" /\ outcome' = outcome
    /\ UNCHANGED oscVars
    /\ UNCHANGED inputVars
    /\ UNCHANGED <<ivIdx, iv_offset, offset, probes, errlog, pending, inOpen,
                   outOpen, output, zeof, nread, nwrite, drained>>

\* Lines 325-334 and 351-352: the try block in whole-buffer mode.
DecodeWholeStep(r) ==
    /\ output' = r.out
    /\ zeof' = r.eof
    /\ drained' = r.drained
    /\ errlog' = errlog \cup r.logged
    /\ pending' = r.pend

DecodeWhole ==
    /\ pc = "decode"
    /\ mem_approach
    /\ DecodeWholeStep(WholeBuffer(stream, force, ioFault))
    /\ pc' = "finally"
    /\ UNCHANGED oscVars
    /\ UNCHANGED inputVars
    /\ UNCHANGED <<ivIdx, iv_offset, offset, probes, outcome, inOpen, outOpen,
                   nread, nwrite>>

\* Lines 341-345 and 351-352: one iteration of the loop of chunked mode.
ReadChunk ==
    /\ pc = "decode"
    /\ ~mem_approach
    /\ nread' = nread + 1
    /\ LET k == nread + 1
           d == Decompress(zeof, stream[k])
       IN  IF Fails(ioFault, "read", k)
           THEN /\ pending' = "IOError"
                /\ pc' = "finally"
                /\ UNCHANGED <<output, zeof, nwrite, drained>>
           ELSE IF k > Len(stream)
           THEN /\ drained' = TRUE
                /\ pc' = "chk_eof"
                /\ UNCHANGED <<output, zeof, nwrite, pending>>
           ELSE IF d.err
           THEN /\ pending' = "zlib.error"
                /\ pc' = "finally"
                /\ UNCHANGED <<output, zeof, nwrite, drained>>
           ELSE IF Fails(ioFault, "write", nwrite + 1)
           THEN /\ pending' = "IOError"
                /\ pc' = "finally"
                /\ zeof' = d.eof
                /\ nwrite' = nwrite + 1
                /\ UNCHANGED <<output, drained>>
           ELSE /\ output' = output + d.out
                /\ zeof' = d.eof
                /\ nwrite' = nwrite + 1
                /\ pc' = "decode"
                /\ UNCHANGED <<pending, drained>>
    /\ UNCHANGED oscVars
    /\ UNCHANGED inputVars
    /\ UNCHANGED <<ivIdx, iv_offset, offset, probes, errlog, outcome, inOpen,
                   outOpen>>

\* Lines 346-349 and 351-352: the end-of-stream check of chunked mode.
CheckEof ==
    /\ pc = "chk_eof"
    /\ IF IsTruncated(zeof)
       THEN IF ~force /\ Fails(ioFault, "truncate", 1)
            THEN /\ pending' = "IOError"
                 /\ UNCHANGED <<output, errlog>>
            ELSE /\ output' = IF ~force THEN 0 ELSE output
                 /\ errlog' = errlog \cup {"Truncated"}
                 /\ pending' = IF LogEExits(force) THEN "Truncated" ELSE "none"
       ELSE UNCHANGED <<output, errlog, pending>>
    /\ pc' = "finally"
    /\ UNCHANGED oscVars
    /\ UNCHANGED inputVars
    /\ UNCHANGED <<ivIdx, iv_offset, offset, probes, outcome, inOpen, outOpen,
                   zeof, nread, nwrite, drained>>

\* Lines 354-358: the finally block closes both files; then what left the
\* try block goes on (exit or exception), or Log.i reports success.
Finally ==
    /\ pc = "finally"
    /\ outOpen' = FALSE
    /\ inOpen' = FALSE
    /\ Exit(IF pending = "none" THEN "success" ELSE pending)
    /\ UNCHANGED oscVars
    /\ UNCHANGED inputVars
    /\ UNCHANGED <<ivIdx, iv_offset, offset, probes, errlog, pending, output,
                   zeof, nread, nwrite, drained>>

\* ------------------------------------------------------------ specifications
IdleOsc ==
    /\ on = 0 /\ omin = 0 /\ omax = 0 /\ oout = << >> /\ opc = "idle"

\* decrypt14 is entered with both files open (argparse opened them; "wb"
\* leaves the output empty).
FreshRun ==
    /\ pc = "start" /\ ivIdx = 0 /\ iv_offset = None /\ offset = None
    /\ probes = << >> /\ errlog = {} /\ outcome = "none" /\ pending = "none"
    /\ inOpen = TRUE /\ outOpen = TRUE /\ output = 0 /\ zeof = FALSE
    /\ nread = 0 /\ nwrite = 0 /\ drained = FALSE

\* Headers: at most two pairs whose class is not "nomagic", among the
\* default offsets (67, 191), a second data offset for the default IV
\* offset, the offsets (70, 200), and (200, 383), a valid payload as far
\* from the defaults as the layout allows.
SpecialPairs == {<<67, 191>>, <<67, 190>>, <<70, 200>>, <<200, 383>>}

FarPair == <<200, 383>>

Headers ==
    UNION {{h \in [ps -> Classes \ {"nomagic"}] :
                FarPair \in ps => h[FarPair] = "sqlite"} :
              ps \in {q \in SUBSET SpecialPairs : Cardinality(q) <= 2}}

\* The input after the data offset: up to MaxChunks blocks.
Streams == UNION {[1..n -> Blocks] : n \in 0..MaxChunks}

IOFaults ==
    {NoFault} \cup {[op |-> o, at |-> 1] : o \in {"hread", "seek", "truncate"}}
    \cup {[op |-> "read", at |-> k] : k \in 1..(MaxChunks + 1)}
    \cup {[op |-> "write", at |-> k] : k \in 1..MaxChunks}

PreFaults == {"none", "short", "plain", "not1", "nover"}

Next ==
    \/ ReadHeader
    \/ CheckPlain
    \/ CheckT1
    \/ CheckVersion
    \/ TryIvOffset
    \/ CheckFound
    \/ Setup
    \/ DecodeWhole
    \/ ReadChunk
    \/ CheckEof
    \/ Finally

\* Every input of the decode pass, behind a header of the documented layout.
Init ==
    /\ IdleOsc
    /\ FreshRun
    /\ force \in BOOLEAN
    /\ mem_approach \in BOOLEAN
    /\ pre \in PreFaults
    /\ hdr \in {f \in Headers : DOMAIN f = {<<67, 191>>} /\ f[<<67, 191>>] = "sqlite"}
    /\ stream \in Streams
    /\ ioFault \in IOFaults

Spec == Init /\ [][Next]_vars

\* The discovery alone (lines 274-312), for every header.
NextDisc ==
    \/ ReadHeader
    \/ CheckPlain
    \/ CheckT1
    \/ CheckVersion
    \/ TryIvOffset
    \/ CheckFound

InitDisc ==
    /\ IdleOsc
    /\ FreshRun
    /\ force \in BOOLEAN
    /\ mem_approach = TRUE
    /\ pre = "none"
    /\ hdr \in Headers
    /\ stream = <<"end">>
    /\ ioFault = NoFault

SpecDisc == InitDisc /\ [][NextDisc]_vars

\* The sequencer alone: one call of oscillate on small arguments, the ones
\* of the contract (n_min <= n <= n_max) and the ones find_data_offset can
\* pass (n below n_min, n_min negative).
OscInputs ==
    {t \in (0..MaxN) \X (-1..MaxN) \X (0..MaxN) : t[1] <= t[3] /\ t[2] <= t[3]}

OscCall ==
    /\ opc = "call"
    /\ oout' = oscillate(on, omin, omax)
    /\ opc' = "done"
    /\ UNCHANGED <<on, omin, omax>>
    /\ UNCHANGED inputVars
    /\ UNCHANGED runVars

\* The pipeline of decrypt14 does not run.
IdleRun ==
    /\ force = FALSE /\ mem_approach = TRUE /\ pre = "none"
    /\ hdr = << >> /\ stream = << >> /\ ioFault = NoFault
    /\ pc = "idle" /\ ivIdx = 0 /\ iv_offset = None /\ offset = None
    /\ probes = << >> /\ errlog = {} /\ outcome = "none" /\ pending = "none"
    /\ inOpen = TRUE /\ outOpen = TRUE /\ output = 0 /\ zeof = FALSE
    /\ nread = 0 /\ nwrite = 0 /\ drained = FALSE

InitOsc ==
    /\ \E t \in OscInputs :
          /\ on = t[1]
          /\ omin = t[2]
          /\ omax = t[3]
    /\ oout = << >>
    /\ opc = "call"
    /\ IdleRun

NextOsc == OscCall

SpecOsc == InitOsc /\ [][NextOsc]_vars

\* ==================================================================== claims

\* C1 (SpecOsc): for 0 <= n_min <= n <= n_max the values oscillate yields
\* are a permutation of n_min..n_max: as many values as the range has, and
\* exactly the integers of the range.
C1_Permutation ==
    (opc = "done" /\ 0 <= omin /\ omin <= on /\ on <= omax)
        => /\ Len(oout) = omax - omin + 1
           /\ SeqToSet(oout) = omin..omax

\* The discovery is over: it left for the decode pass or the process ended.
DiscoveryOver == pc \in {"setup", "ended"}

\* The pairs of the header that pass both stages of the validation.
ValidPairs == {p \in DOMAIN hdr : hdr[p] = "sqlite"}

\* C2 (SpecDisc): when the header holds exactly one pair (I, D) that passes
\* the validation, with 0 <= I, I + 16 <= D <= 384, and no other candidate
\* passes the 2-byte magic check, the discovery ends with iv_offset = I and
\* offset = D.
C2_DiscoveryCorrect ==
    \A p \in SpecialPairs :
        ( /\ DiscoveryOver
          /\ DOMAIN hdr = {p}
          /\ hdr[p] = "sqlite"
          /\ p[1] >= 0
          /\ p[2] >= p[1] + IV_LENGTH
          /\ p[2] <= HEADER_SIZE - TAIL_ROOM )
        => (pc = "setup" /\ iv_offset = p[1] /\ offset = p[2])

\* C3 (SpecDisc): a candidate that passes the magic check and fails the
\* confirmation is a non-match whatever force is: the run is never ended by
\* it, and the offsets the discovery returns are never such a candidate.
C3_FalsePositiveRejected ==
    /\ outcome \notin {"ChunkTooSmall", "NotSQLite", "UnicodeDecodeError"}
    /\ (pc = "setup") => (Class(hdr, iv_offset, offset) = "sqlite")

\* C5 (SpecDisc): when no candidate passes the full validation, the only
\* way the discovery ends is the offsets-not-found failure.
C5_WrongKeyNotFound ==
    (DiscoveryOver /\ ValidPairs = {})
        => (pc = "ended" /\ outcome = "OffsetsNotFound")

\* C9 (SpecDisc): every pair (iv_offset, i) submitted to the oracle has
\* iv_offset >= 0, i >= iv_offset + 16 and i <= 384.
C9_CandidateInvariant ==
    \A k \in 1..Len(probes) :
        /\ iv_offset >= 0
        /\ probes[k] >= iv_offset + IV_LENGTH
        /\ probes[k] <= HEADER_SIZE - TAIL_ROOM

\* The test of a pair returns true.
Accepts(p) == Probe(hdr, p[1], p[2], force).ret

\* The place of x in the sequence s (0 when s does not hold it).
PosIn(s, x) ==
    IF \E k \in 1..Len(s) : s[k] = x
    THEN CHOOSE k \in 1..Len(s) : s[k] = x
    ELSE 0

\* Oscillating order around d: nearer to d first, below d before above.
OscKey(d, x) == IF x < d THEN 2 * (d - x) - 1 ELSE 2 * (x - d)

\* The pair p comes before the last probed pair in the order of the search.
VisitedBefore(p) ==
    \/ /\ PosIn(IvSeq, p[1]) > 0
       /\ PosIn(IvSeq, p[1]) < ivIdx
       /\ PosIn(DataSeq(p[1]), p[2]) > 0
    \/ /\ p[1] = iv_offset
       /\ PosIn(probes, p[2]) > 0
       /\ PosIn(probes, p[2]) < Len(probes)

Found == pc \in {"after_loop", "setup"} /\ offset # -1

C10_Order ==
    /\ \A k \in 1..(Len(probes) - 1) :
           OscKey(DEFAULT_DATA_OFFSET, probes[k])
               < OscKey(DEFAULT_DATA_OFFSET, probes[k + 1])
    /\ ivIdx > 0 =>
           /\ iv_offset \in 0..(HEADER_SIZE - TAIL_ROOM)
           /\ ivIdx = 1 + Cardinality(
                  {x \in 0..(HEADER_SIZE - TAIL_ROOM) :
                      OscKey(DEFAULT_IV_OFFSET, x)
                          < OscKey(DEFAULT_IV_OFFSET, iv_offset)})

C10_Earliest ==
    Found =>
        /\ Len(probes) > 0
        /\ offset = probes[Len(probes)]
        /\ Accepts(<<iv_offset, offset>>)
        /\ \A p \in DOMAIN hdr : Accepts(p) => ~VisitedBefore(p)

\* C10 (SpecDisc): IV offsets are visited in oscillating order around 67
\* over [0, 384] and data offsets in oscillating order around 191; the pair
\* returned is the earliest pair of that order whose test returns true, and
\* once it is returned nothing more is probed.
C10_FirstHit ==
    /\ [](C10_Order /\ C10_Earliest)
    /\ [][Found => UNCHANGED <<ivIdx, iv_offset, offset, probes>>]_vars

\* C10 witness: two pairs pass the test, the search returned the one that
\* comes first, at offsets that are not the defaults.
C10_Witness ==
    /\ pc = "setup"
    /\ iv_offset = 70
    /\ offset = 200
    /\ Cardinality({p \in DOMAIN hdr : Accepts(p)}) = 2

\* The decode pass consumed all its input and the decompressor did not
\* reach the end of the compressed stream.
EndedTruncated == pc = "ended" /\ drained /\ ~zeof

\* C4 as stated (Spec): such a run ends with the truncated-stream failure.
C4_Original == EndedTruncated => outcome = "Truncated"

\* C4 as amended (Spec): with force off such a run ends with the
\* truncated-stream failure, or with the I/O failure when truncating the
\* output of chunked mode fails, and never reports success; with force on
\* the truncated-stream error is reported and is not fatal.
C4_Amended ==
    EndedTruncated =>
        IF force
        THEN "Truncated" \in errlog /\ outcome \in {"success", "IOError"}
        ELSE \/ outcome = "Truncated" /\ "Truncated" \in errlog
             \/ /\ outcome = "IOError"
                /\ ~mem_approach
                /\ Fails(ioFault, "truncate", 1)

\* C4 witness: a truncated input in chunked mode, force off, ended with the
\* truncated-stream failure after output had been written.
C4_Witness ==
    /\ EndedTruncated
    /\ ~force
    /\ ~mem_approach
    /\ nwrite > 0
    /\ outcome = "Truncated"

DecodeFailures == {"Truncated", "zlib.error", "IOError"}

\* C6 (Spec): with force off, a run that ends with a failure of the decode
\* pass leaves the output file empty.
C6_OutputEmptyOnFailure ==
    (pc = "ended" /\ ~force /\ outcome \in DecodeFailures) => output = 0

\* C7 (Spec): when the run has ended, both files have been closed.
C7_HandlesClosed == pc = "ended" => (~inOpen /\ ~outOpen)

\* How the whole-buffer mode ends on the input of this run.
WholeOutcome(r) ==
    [outcome |-> IF r.pend = "none" THEN "success" ELSE r.pend,
     output |-> r.out]

\* C8 (Spec): without I/O errors, a run of the decode pass in chunked mode
\* ends as the whole-buffer mode ends on the same input and force setting:
\* same outcome, same content of the output.
C8_ModesEquivalent ==
    ( /\ pc = "ended"
      /\ ~mem_approach
      /\ ioFault = NoFault
      /\ outcome \in DecodeFailures \cup {"success"} )
    => [outcome |-> outcome, output |-> output]
           = WholeOutcome(WholeBuffer(stream, force, NoFault))

====
